---- MODULE Spec2Model ----
(***************************************************************************)
(* Layout-adaptation and output-aliasing dispatch of blas-array2:          *)
(*   util_ndarray.rs : ArrayOut, get_layout_array2, flip_trans_{f,c}pref   *)
(*   blas3/syrk.rs   : SYRK_Builder::run, SYRK_::driver, SYRK_Driver       *)
(*   blas2/tpsv.rs   : TPSV_Builder::run, TPSV_::driver, TPSV_Driver       *)
(* A 2-D array is a record of shape, element strides and, where contents   *)
(* matter, a function from logical index to value.  Indices are 0-based,   *)
(* tuples are <<axis0, axis1>>.                                            *)
(***************************************************************************)
EXTENDS Integers, Sequences, FiniteSets, TLC

(* ------------------------------ bounds -------------------------------- *)
\* largest ordinary dimension of a matrix operand
MaxDim == 2
\* largest length of the vector x of the packed solve
MaxN == 2
\* width in bits of the native integer c_int, scaled down from 32 so that
\* values beyond it stay representable as model integers
CIntBits == 8

(* ------------------------- program constants -------------------------- *)
\* largest value of the native integer type c_int (i32)
CIntMax == 2 ^ (CIntBits - 1) - 1
\* a dimension or stride that does not fit c_int
Huge == CIntMax + 1

Layouts == {"RowMajor", "ColMajor", "Sequential", "NonContiguous"}
\* BLASTranspose; ConjNoTrans stands for the values the `_ =>` arms catch
Transposes == {"NoTrans", "Trans", "ConjTrans", "ConjNoTrans"}
UpLos == {"Upper", "Lower"}
None == "None"

(* --------------------------- ndarray helpers --------------------------- *)
Idx(dim) == (0 .. dim[1] - 1) \X (0 .. dim[2] - 1)
Swap(p) == <<p[2], p[1]>>
IsEmpty(dim) == dim[1] = 0 \/ dim[2] = 0

\* Dimension::default_strides: C order, all zero for an empty array
DefaultStrides(dim) == IF IsEmpty(dim) THEN <<0, 0>> ELSE <<dim[2], 1>>
\* Dimension::fortran_strides
FortranStrides(dim) == IF IsEmpty(dim) THEN <<0, 0>> ELSE <<1, dim[1]>>

\* dimension::is_layout_c (is_standard_layout), 2-D: axes of length 1 may
\* carry any stride
IsLayoutC(dim, strides) ==
    \/ IsEmpty(dim)
    \/ /\ (dim[2] # 1 => strides[2] = 1)
       /\ (dim[1] # 1 => strides[1] = (IF dim[2] # 1 THEN dim[2] ELSE 1))

\* Dimension::is_contiguous, 2-D, non-negative strides: contiguous in
\* memory order, whichever axis varies fastest
IsContiguous(dim, strides) ==
    \/ strides = DefaultStrides(dim)
    \/ LET f == IF strides[1] <= strides[2] THEN 1 ELSE 2
           g == 3 - f
       IN  /\ (dim[f] # 1 => strides[f] = 1)
           /\ (dim[g] # 1 => strides[g] = dim[f])

\* is_layout_c for one axis
IsLayoutC1(len, stride) == stride = 1 \/ len <= 1
DefaultStride1(len) == IF len = 0 THEN 0 ELSE 1

\* ArrayBase::t / reversed_axes on shape and strides
T(v) == [v EXCEPT !.dim = Swap(v.dim), !.strides = Swap(v.strides)]

\* ArrayBase::as_standard_layout: borrows when already in standard layout,
\* otherwise copies into a fresh C-order array
as_standard_layout(v) ==
    IF IsLayoutC(v.dim, v.strides) THEN v
    ELSE [v EXCEPT !.strides = DefaultStrides(v.dim), !.owned = TRUE]

\* ArrayBase::mapv(F::conj): always a fresh array; keeps the strides of a
\* contiguous source, C order otherwise
mapv_conj(v) ==
    [v EXCEPT !.strides = IF IsContiguous(v.dim, v.strides) THEN v.strides
                          ELSE DefaultStrides(v.dim),
              !.owned = TRUE, !.conj = ~v.conj]

(* --------------------------- layout classifier ------------------------- *)
get_layout_array2_ColFirst(dim, strides) ==
    IF dim[1] = 0 \/ dim[2] = 0 THEN "Sequential"
    ELSE IF dim[1] = 1 /\ dim[2] = 1 THEN "Sequential"
    ELSE IF strides[1] = 1 THEN "ColMajor"
    ELSE IF strides[2] = 1 THEN "RowMajor"
    ELSE "NonContiguous"

get_layout_array2(dim, strides) ==
    IF dim[1] = 0 \/ dim[2] = 0 THEN "Sequential"
    ELSE IF dim[1] = 1 /\ dim[2] = 1 THEN "Sequential"
    ELSE IF strides[2] = 1 THEN "RowMajor"
    ELSE IF strides[1] = 1 THEN "ColMajor"
    ELSE "NonContiguous"

(* ------------------- flags (crate::util, not in src/) ------------------ *)
is_fpref(l) == l \in {"ColMajor", "Sequential"}
is_cpref(l) == l \in {"RowMajor", "Sequential"}

\* BLASTranspose::flip(hermi)
trans_flip(trans, hermi) ==
    CASE trans = "NoTrans" -> IF hermi THEN "ConjTrans" ELSE "Trans"
      [] trans = "Trans" -> "NoTrans"
      [] trans = "ConjTrans" -> "NoTrans"
      [] OTHER -> "Invalid"

\* BLASUpLo::flip
uplo_flip(uplo) == IF uplo = "Upper" THEN "Lower" ELSE "Upper"

\* get_layout_row_preferred(&[layout, layout_c], &[layout_a]): an explicit
\* hint wins; otherwise the operands that have a preference vote, and a tie
\* or no preference gives row-major
Votes(ls, tag) == Cardinality({i \in DOMAIN ls : ls[i] = tag})
get_layout_row_preferred(hint, layout_c, layout_a) ==
    IF hint \in {"RowMajor", "ColMajor"} THEN hint
    ELSE LET ls == <<layout_c, layout_a>>
         IN  IF Votes(ls, "ColMajor") > Votes(ls, "RowMajor") THEN "ColMajor"
             ELSE "RowMajor"

(* ------------------------------ flip rules ----------------------------- *)
FlipOk(t, cow) == [err |-> FALSE, trans |-> t, cow |-> cow]
FlipErr(view) == [err |-> TRUE, trans |-> "Invalid", cow |-> view]

flip_trans_fpref_ConjBorrows(trans, view, view_t, hermi) ==
    IF is_fpref(get_layout_array2(view.dim, view.strides))
    THEN FlipOk(trans, as_standard_layout(view_t))
    ELSE CASE trans = "NoTrans" ->
                FlipOk(trans_flip(trans, hermi),
                       IF hermi THEN mapv_conj(view) ELSE as_standard_layout(view))
           [] trans = "Trans" ->
                FlipOk(trans_flip(trans, hermi), as_standard_layout(view))
           [] trans = "ConjTrans" ->
                FlipOk(trans_flip(trans, hermi), as_standard_layout(view))
           [] OTHER -> FlipErr(view)

flip_trans_fpref(trans, view, view_t, hermi) ==
    IF is_fpref(get_layout_array2(view.dim, view.strides))
    THEN FlipOk(trans, as_standard_layout(view_t))
    ELSE CASE trans = "NoTrans" ->
                FlipOk(trans_flip(trans, hermi),
                       IF hermi THEN mapv_conj(view) ELSE as_standard_layout(view))
           [] trans = "Trans" ->
                FlipOk(trans_flip(trans, hermi), as_standard_layout(view))
           [] trans = "ConjTrans" ->
                FlipOk(trans_flip(trans, hermi), mapv_conj(view))
           [] OTHER -> FlipErr(view)

flip_trans_cpref(trans, view, view_t, hermi) ==
    IF is_cpref(get_layout_array2(view.dim, view.strides))
    THEN FlipOk(trans, as_standard_layout(view))
    ELSE CASE trans = "NoTrans" ->
                FlipOk(trans_flip(trans, hermi),
                       IF hermi THEN mapv_conj(view_t) ELSE as_standard_layout(view_t))
           [] trans = "Trans" ->
                FlipOk(trans_flip(trans, hermi), as_standard_layout(view_t))
           [] trans = "ConjTrans" ->
                FlipOk(trans_flip(trans, hermi), mapv_conj(view_t))
           [] OTHER -> FlipErr(view)

(* ------------------ output container (ArrayOut<F, Ix2>) ---------------- *)
\* The caller's memory `mem` maps the caller's logical index to a value.  A
\* view of it carries rev = TRUE when its axes are reversed w.r.t. the
\* caller's.  An owned array carries its own elements.
NoView == [dim |-> <<0, 0>>, strides |-> <<0, 0>>, rev |-> FALSE]
NoArr == [dim |-> <<0, 0>>, strides |-> <<0, 0>>, el |-> <<>>]
NoOut == [tag |-> None, view |-> NoView, arr |-> NoArr]
OutViewMut(v) == [tag |-> "ViewMut", view |-> v, arr |-> NoArr]
OutOwned(a) == [tag |-> "Owned", view |-> NoView, arr |-> a]
OutToBeCloned(v, a) == [tag |-> "ToBeCloned", view |-> v, arr |-> a]

Transpose(el, dim) == [p \in Idx(Swap(dim)) |-> el[Swap(p)]]
\* the elements of a view of the caller's memory, by the view's index
ViewGet(v, mem) == [p \in Idx(v.dim) |-> IF v.rev THEN mem[Swap(p)] ELSE mem[p]]
\* ArrayViewMut::assign(&src): element-wise, by logical index of the view
Assign(v, el, mem) == [q \in DOMAIN mem |-> IF v.rev THEN el[Swap(q)] ELSE el[q]]
ReverseView(v) == [dim |-> Swap(v.dim), strides |-> Swap(v.strides), rev |-> ~v.rev]
ReverseArr(a) == [dim |-> Swap(a.dim), strides |-> Swap(a.strides),
                  el |-> Transpose(a.el, a.dim)]
\* ArrayBase::to_owned keeps the strides of a contiguous source
ToOwnedStrides(dim, strides) ==
    IF IsContiguous(dim, strides) THEN strides ELSE DefaultStrides(dim)

OutRes(o, mem, n) == [out |-> o, mem |-> mem, assigned |-> n]

\* ArrayOut::view / view_mut and the pointer match of run_blas: the array
\* that reads and writes go to
OutTargetIsCaller(o) == o.tag = "ViewMut"
view(o, mem) == IF OutTargetIsCaller(o) THEN ViewGet(o.view, mem) ELSE o.arr.el
view_mut_store(o, mem, el) ==
    IF OutTargetIsCaller(o) THEN OutRes(o, Assign(o.view, el, mem), 0)
    ELSE OutRes([o EXCEPT !.arr.el = el], mem, 0)
view_strides(o) == IF OutTargetIsCaller(o) THEN o.view.strides ELSE o.arr.strides

into_owned(o, mem) ==
    CASE o.tag = "ViewMut" ->
           OutRes([tag |-> "Array", view |-> NoView,
                   arr |-> [dim |-> o.view.dim,
                            strides |-> ToOwnedStrides(o.view.dim, o.view.strides),
                            el |-> ViewGet(o.view, mem)]], mem, 0)
      [] o.tag = "Owned" -> OutRes([o EXCEPT !.tag = "Array"], mem, 0)
      [] o.tag = "ToBeCloned" ->
           OutRes([tag |-> "Array", view |-> NoView, arr |-> o.arr],
                  Assign(o.view, o.arr.el, mem), 1)

clone_to_view_mut_KeepShadow(o, mem) ==
    IF o.tag = "ToBeCloned"
    THEN OutRes(o, Assign(o.view, o.arr.el, mem), 1)
    ELSE OutRes(o, mem, 0)

clone_to_view_mut_NoAssign(o, mem) ==
    IF o.tag = "ToBeCloned"
    THEN OutRes(OutViewMut(o.view), mem, 0)
    ELSE OutRes(o, mem, 0)

clone_to_view_mut(o, mem) ==
    IF o.tag = "ToBeCloned"
    THEN OutRes(OutViewMut(o.view), Assign(o.view, o.arr.el, mem), 1)
    ELSE OutRes(o, mem, 0)

reversed_axes(o, mem) ==
    CASE o.tag = "ViewMut" -> OutRes(OutViewMut(ReverseView(o.view)), mem, 0)
      [] o.tag = "Owned" -> OutRes(OutOwned(ReverseArr(o.arr)), mem, 0)
      [] o.tag = "ToBeCloned" ->
           OutRes(OutViewMut(ReverseView(o.view)), Assign(o.view, o.arr.el, mem), 1)

(* ------------------------------- kernels ------------------------------- *)
\* value the rank-k kernel stores at column-major index p
KernelVal(p) == 100 + 10 * p[1] + p[2]
InTriangle(uplo, p) == IF uplo = "Upper" THEN p[1] <= p[2] ELSE p[1] >= p[2]
\* BLASFunc::syrk: stores into the uplo triangle (diagonal included) of the
\* n x n column-major buffer and into nothing else
syrk_kernel(el, uplo) ==
    [p \in DOMAIN el |-> IF InTriangle(uplo, p) THEN KernelVal(p) ELSE el[p]]

\* F::conj on an abstract scalar: identity on real element types
Conj(e, complex) == IF complex THEN [e EXCEPT !.cj = ~e.cj] ELSE e
mapv_inplace_conj(x, complex) == [i \in DOMAIN x |-> Conj(x[i], complex)]
\* BLASFunc::tpsv: overwrites x with the solution
tpsv_kernel(x) == [i \in DOMAIN x |-> [id |-> 100 + i, cj |-> FALSE]]

(* -------------------------- integer narrowing -------------------------- *)
\* usize/isize -> c_int by TryFrom
TryIntoOk(v) == v <= CIntMax /\ v >= -CIntMax - 1
try_into_Truncate(v) ==
    [ok |-> TRUE, val |-> ((v + CIntMax + 1) % (2 * (CIntMax + 1))) - (CIntMax + 1)]
try_into(v) == [ok |-> TryIntoOk(v), val |-> v]

(* ------------------------------- inputs -------------------------------- *)
\* strides an axis of a real array can carry: an axis of length <= 1 has
\* stride 0 (slicing) or 1 (insert_axis, default strides); a longer axis is
\* unit-stride, packed against the other axis, padded (a sub-matrix view),
\* or too far apart for c_int
AxisStrides(len, other) ==
    IF len <= 1 THEN {0, 1}
    ELSE IF other = Huge THEN {1, 2}
    ELSE {1, other, other + 1, Huge} \ {0}
StridePairs(dim) ==
    {s \in AxisStrides(dim[1], dim[2]) \X AxisStrides(dim[2], dim[1]) :
        (dim[1] >= 2 /\ dim[2] >= 2) => s[1] # s[2]}

ADims == ((0 .. MaxDim) \X (0 .. MaxDim)) \cup {<<1, Huge>>, <<Huge, 1>>}
AViews == UNION {{[dim |-> d, strides |-> s] : s \in StridePairs(d)} : d \in ADims}
\* accumulators: square ones, and one shape that can never be (n, n)
CDims == {<<n, n>> : n \in 0 .. MaxDim} \cup {<<1, 2>>}
NoC == [some |-> FALSE, dim |-> <<0, 0>>, strides |-> <<0, 0>>]
CViews == {NoC} \cup
    UNION {{[some |-> TRUE, dim |-> d, strides |-> s] : s \in StridePairs(d)} : d \in CDims}
\* SSYRK/DSYRK, CSYRK/ZSYRK, CHERK/ZHERK
Kinds == {<<FALSE, FALSE>>, <<TRUE, FALSE>>, <<TRUE, TRUE>>}
Hints == {None, "RowMajor", "ColMajor"}

SyrkInputs ==
    {[op |-> "syrk", a |-> a, c |-> c, uplo |-> u, trans |-> t, layout |-> h,
      complex |-> kd[1], hermi |-> kd[2]] :
        a \in AViews, c \in CViews, u \in UpLos, t \in Transposes, h \in Hints,
        kd \in Kinds}

\* 1-D operands of the packed solve
\* length of the packed triangle of an n x n matrix
PackedLen(n) == (n * (n + 1)) \div 2
ApLens == {PackedLen(n) : n \in 0 .. MaxN} \cup {2}
ApStrides == {-1, 0, 1, 2}
XStrides == {1, 2, Huge}
TpsvUpLos == UpLos \cup {"Undefined"}
TpsvInputs ==
    {[op |-> "tpsv", ap |-> [len |-> l, stride |-> s],
      x |-> [len |-> n, stride |-> sx], uplo |-> u, trans |-> t, layout |-> h,
      complex |-> cx] :
        l \in ApLens, s \in ApStrides, n \in 0 .. MaxN, sx \in XStrides,
        u \in TpsvUpLos, t \in Transposes, h \in Hints, cx \in BOOLEAN}

\* contents of the caller's buffers before the dispatch
CInit(dim) == [p \in Idx(dim) |-> 1 + p[1] * dim[2] + p[2]]
XInit(len) == [i \in 0 .. len - 1 |-> [id |-> i + 1, cj |-> FALSE]]

(* -------------------------------- state -------------------------------- *)
VARIABLES
    pc,       \* position in the dispatch: run, driver, run_blas, ret, done
    in,       \* the builder's fields as the caller set them
    elected,  \* the layout elected by run
    cls,      \* the layouts run classified: of a and of c
    obj,      \* the SYRK_ / TPSV_ struct run hands to driver
    drv,      \* the SYRK_Driver / TPSV_Driver descriptor
    out,      \* the ArrayOut2 container
    outPre,   \* the container as the kernel left it, before finalisation
    cmem,     \* the caller's accumulator, by the caller's logical index
    xmem,     \* the caller's vector x
    native,   \* the native calls made, with their arguments
    result,   \* pending, ok, an error kind, or panic
    assigns,  \* number of assign-backs of a shadow buffer into the caller
    lastRead, \* what ArrayOut::view last returned
    lastOp    \* the container operation applied last
vars == <<pc, in, elected, cls, obj, drv, out, outPre, cmem, xmem, native,
          result, assigns, lastRead, lastOp>>

NoObj == [op |-> None]
NoDrv == [op |-> None]
NoCls == [a |-> None, c |-> None]

\* a dispatch about to start
InitDispatch ==
    /\ in \in SyrkInputs \cup TpsvInputs
    /\ pc = "run"
    /\ elected = None
    /\ cls = NoCls
    /\ obj = NoObj
    /\ drv = NoDrv
    /\ out = NoOut
    /\ outPre = NoOut
    /\ cmem = IF in.op = "syrk" /\ in.c.some THEN CInit(in.c.dim) ELSE <<>>
    /\ xmem = IF in.op = "tpsv" THEN XInit(in.x.len) ELSE <<>>
    /\ native = <<>>
    /\ result = "pending"
    /\ assigns = 0
    /\ lastRead = <<>>
    /\ lastOp = None

\* the dispatch returns Err(kind) or panics: nothing else changes
Stop(kind) ==
    /\ pc' = "done"
    /\ result' = kind

(* --------------------------- SYRK_Builder::run ------------------------- *)
\* the selector check of run (and, again, of driver)
SYRK_run_check_ComplexAcceptsConj(complex, hermi, trans) ==
    trans \in {"NoTrans", "Trans", "ConjTrans"}

SYRK_run_check(complex, hermi, trans) ==
    IF ~complex THEN trans \in {"NoTrans", "Trans", "ConjTrans"}
    ELSE IF ~hermi THEN trans \in {"NoTrans", "Trans"}
    ELSE trans \in {"NoTrans", "ConjTrans"}

SYRK_driver_check(complex, hermi, trans) ==
    IF ~complex THEN trans \in {"NoTrans", "Trans", "ConjTrans"}
    ELSE IF ~hermi THEN trans \in {"NoTrans", "Trans"}
    ELSE trans \in {"NoTrans", "ConjTrans"}

AView(a) == [dim |-> a.dim, strides |-> a.strides, owned |-> FALSE, conj |-> FALSE]
CView(c) == [some |-> c.some, dim |-> c.dim, strides |-> c.strides, rev |-> FALSE]
CReversed(c) ==
    [some |-> c.some, dim |-> Swap(c.dim), strides |-> Swap(c.strides), rev |-> c.some]

\* the struct of the column-major branch
SYRK_obj_col(r, c, uplo, hermi) ==
    [op |-> "syrk", a |-> T(r.cow), c |-> CView(c), uplo |-> uplo,
     trans |-> r.trans, layout |-> "ColMajor"]

\* the struct of the row-major branch
SYRK_obj_row_KeepUplo(r, c, uplo, hermi) ==
    [op |-> "syrk", a |-> T(r.cow), c |-> CReversed(c), uplo |-> uplo,
     trans |-> trans_flip(r.trans, hermi), layout |-> "ColMajor"]

SYRK_obj_row(r, c, uplo, hermi) ==
    [op |-> "syrk", a |-> T(r.cow), c |-> CReversed(c), uplo |-> uplo_flip(uplo),
     trans |-> trans_flip(r.trans, hermi), layout |-> "ColMajor"]

SYRK_run ==
    /\ pc = "run"
    /\ in.op = "syrk"
    /\ UNCHANGED <<in, drv, out, outPre, cmem, xmem, native, assigns, lastRead,
                   lastOp>>
    /\ IF ~SYRK_run_check(in.complex, in.hermi, in.trans)
       THEN Stop("InvalidParameter") /\ UNCHANGED <<elected, cls, obj>>
       ELSE LET a == AView(in.a)
                at == T(a)
                layout_a == get_layout_array2(a.dim, a.strides)
                layout_c == IF in.c.some
                            THEN get_layout_array2(in.c.dim, in.c.strides)
                            ELSE None
                layout == get_layout_row_preferred(in.layout, layout_c, layout_a)
                r == IF layout = "ColMajor"
                     THEN flip_trans_fpref(in.trans, a, at, in.hermi)
                     ELSE flip_trans_cpref(in.trans, a, at, in.hermi)
            IN  /\ elected' = layout
                /\ cls' = [a |-> layout_a, c |-> layout_c]
                /\ IF r.err
                   THEN Stop("InvalidParameter") /\ UNCHANGED obj
                   ELSE /\ obj' = IF layout = "ColMajor"
                                  THEN SYRK_obj_col(r, in.c, in.uplo, in.hermi)
                                  ELSE SYRK_obj_row(r, in.c, in.uplo, in.hermi)
                        /\ pc' = "driver"
                        /\ UNCHANGED result

(* ----------------------------- SYRK_::driver --------------------------- *)
\* the shadow buffer c.t().as_standard_layout().into_owned().reversed_axes():
\* a column-major copy of c
SYRK_c_buffer(c, mem) ==
    LET ct == [dim |-> Swap(c.dim), strides |-> Swap(c.strides),
               owned |-> FALSE, conj |-> FALSE]
        std == as_standard_layout(ct)
    IN  [dim |-> c.dim, strides |-> Swap(std.strides), el |-> ViewGet(c, mem)]

\* Array2::zeros((n, n).f())
SYRK_c_zeros(n) ==
    [dim |-> <<n, n>>, strides |-> FortranStrides(<<n, n>>),
     el |-> [p \in Idx(<<n, n>>) |-> 0]]

\* optional intent(out): the container of the accumulator
SYRK_c_out(c, mem, n) ==
    IF c.some
    THEN LET v == [dim |-> c.dim, strides |-> c.strides, rev |-> c.rev]
         IN  IF is_fpref(get_layout_array2(c.dim, c.strides))
             THEN OutViewMut(v)
             ELSE OutToBeCloned(v, SYRK_c_buffer(v, mem))
    ELSE OutOwned(SYRK_c_zeros(n))

\* (n, k) from the shape of a and trans
SYRK_nk(a, trans) ==
    IF trans = "NoTrans" THEN <<a.dim[1], a.dim[2]>> ELSE <<a.dim[2], a.dim[1]>>

\* blas_assert_eq!(c.dim(), (n, n), InvalidDim)
SYRK_dim_check(c, n) == c.some => c.dim = <<n, n>>

SYRK_driver ==
    /\ pc = "driver"
    /\ obj.op = "syrk"
    /\ UNCHANGED <<in, elected, cls, obj, outPre, cmem, xmem, native, assigns,
                   lastRead, lastOp>>
    /\ LET a == obj.a
           layout_a == get_layout_array2(a.dim, a.strides)
           nk == SYRK_nk(a, obj.trans)
           n == nk[1]
           k == nk[2]
           lda == a.strides[2]
       IN  IF obj.layout # "ColMajor" \/ ~is_fpref(layout_a)
           THEN Stop("panic") /\ UNCHANGED <<drv, out>>
           ELSE IF obj.trans \notin {"NoTrans", "Trans", "ConjTrans"}
           THEN Stop("InvalidParameter") /\ UNCHANGED <<drv, out>>
           ELSE IF ~SYRK_driver_check(in.complex, in.hermi, obj.trans)
           THEN Stop("InvalidParameter") /\ UNCHANGED <<drv, out>>
           ELSE IF ~SYRK_dim_check(obj.c, n)
           THEN Stop("InvalidDim") /\ UNCHANGED <<drv, out>>
           ELSE IF ~obj.c.some /\ n = Huge
           \* Array2::zeros of Huge x Huge elements: capacity overflow
           THEN Stop("panic") /\ UNCHANGED <<drv, out>>
           ELSE LET c == SYRK_c_out(obj.c, cmem, n)
                    ldc == view_strides(c)[2]
                    tn == try_into(n)
                    tk == try_into(k)
                    tlda == try_into(lda)
                    tldc == try_into(ldc)
                IN  /\ out' = c
                    /\ IF tn.ok /\ tk.ok /\ tlda.ok /\ tldc.ok
                       THEN /\ drv' = [op |-> "syrk", uplo |-> obj.uplo,
                                       trans |-> obj.trans, n |-> tn.val,
                                       k |-> tk.val, lda |-> tlda.val,
                                       ldc |-> tldc.val]
                            /\ pc' = "run_blas"
                            /\ UNCHANGED result
                       ELSE Stop("IntegerOverflow") /\ UNCHANGED drv

(* -------------------------- SYRK_Driver::run_blas ---------------------- *)
SYRK_run_blas ==
    /\ pc = "run_blas"
    /\ drv.op = "syrk"
    /\ UNCHANGED <<in, elected, cls, obj, drv, xmem, result, lastRead, lastOp>>
    /\ pc' = "ret"
    /\ IF drv.n = 0 \/ drv.k = 0
       THEN LET fin == clone_to_view_mut(out, cmem)
            IN  /\ outPre' = out
                /\ out' = fin.out
                /\ cmem' = fin.mem
                /\ assigns' = assigns + fin.assigned
                /\ UNCHANGED native
       ELSE LET w == view_mut_store(out, cmem, syrk_kernel(view(out, cmem), drv.uplo))
                fin == clone_to_view_mut(w.out, w.mem)
            IN  /\ native' = Append(native, drv)
                /\ outPre' = w.out
                /\ out' = fin.out
                /\ cmem' = fin.mem
                /\ assigns' = assigns + fin.assigned

\* the tail of run: Ok(c) in the column-major branch, Ok(c.reversed_axes())
\* in the row-major branch
SYRK_finish ==
    /\ pc = "ret"
    /\ drv.op = "syrk"
    /\ UNCHANGED <<in, elected, cls, obj, drv, outPre, xmem, native, lastRead, lastOp>>
    /\ LET fin == IF elected = "ColMajor" THEN OutRes(out, cmem, 0)
                  ELSE reversed_axes(out, cmem)
       IN  /\ out' = fin.out
           /\ cmem' = fin.mem
           /\ assigns' = assigns + fin.assigned
    /\ Stop("ok")

(* --------------------------- TPSV_Builder::run ------------------------- *)
\* ArrayView1::as_standard_layout
as_standard_layout1(v) ==
    IF IsLayoutC1(v.len, v.stride) THEN v
    ELSE [v EXCEPT !.stride = DefaultStride1(v.len), !.owned = TRUE]

\* the uplo match of the row-major branches
TPSV_uplo_flip_Keep(uplo) ==
    IF uplo \in UpLos THEN uplo ELSE "Invalid"

TPSV_uplo_flip(uplo) ==
    CASE uplo = "Upper" -> "Lower"
      [] uplo = "Lower" -> "Upper"
      [] OTHER -> "Invalid"

\* the transpose selector of the row-major branches
TPSV_trans_flip(trans) ==
    CASE trans = "NoTrans" -> "Trans"
      [] trans = "Trans" -> "NoTrans"
      [] trans = "ConjTrans" -> "NoTrans"
      [] OTHER -> "Invalid"

TPSV_run ==
    /\ pc = "run"
    /\ in.op = "tpsv"
    /\ UNCHANGED <<in, cls, drv, out, outPre, cmem, native, assigns, lastRead,
                   lastOp>>
    /\ LET layout == IF in.layout = None THEN "RowMajor" ELSE in.layout
           ap_cow == as_standard_layout1([len |-> in.ap.len,
                                          stride |-> in.ap.stride,
                                          owned |-> FALSE])
       IN  /\ elected' = layout
           /\ IF layout = "ColMajor"
              THEN /\ obj' = [op |-> "tpsv", ap |-> ap_cow, x |-> in.x,
                              uplo |-> in.uplo, trans |-> in.trans,
                              layout |-> "ColMajor"]
                   /\ pc' = "driver"
                   /\ UNCHANGED <<xmem, result>>
              ELSE IF TPSV_trans_flip(in.trans) = "Invalid"
              THEN Stop("InvalidParameter") /\ UNCHANGED <<obj, xmem>>
              ELSE \* ConjTrans conjugates x in place before the struct is built
                   /\ xmem' = IF in.trans = "ConjTrans"
                              THEN mapv_inplace_conj(xmem, in.complex)
                              ELSE xmem
                   /\ IF TPSV_uplo_flip(in.uplo) = "Invalid"
                      THEN Stop("InvalidParameter") /\ UNCHANGED obj
                      ELSE /\ obj' = [op |-> "tpsv", ap |-> ap_cow, x |-> in.x,
                                      uplo |-> TPSV_uplo_flip(in.uplo),
                                      trans |-> TPSV_trans_flip(in.trans),
                                      layout |-> "ColMajor"]
                           /\ pc' = "driver"
                           /\ UNCHANGED result

(* ----------------------------- TPSV_::driver --------------------------- *)
\* blas_assert_eq!(np, n * (n + 1) / 2, "Incompatible dimensions")
TPSV_dim_check(np, n) == np = PackedLen(n)

\* From<selector> for c_char is not in src/: a selector without a character
\* code either panics or is reported as an invalid parameter
CharCodeOutcomes == {"panic", "InvalidParameter"}
HasCharCode(uplo, trans) ==
    uplo \in UpLos /\ trans \in {"NoTrans", "Trans", "ConjTrans"}

TPSV_driver ==
    /\ pc = "driver"
    /\ obj.op = "tpsv"
    /\ UNCHANGED <<in, elected, cls, obj, out, outPre, cmem, xmem, native,
                   assigns, lastRead, lastOp>>
    /\ LET incap == obj.ap.stride
           np == obj.ap.len
           n == obj.x.len
           incx == obj.x.stride
           tn == try_into(n)
           tincx == try_into(incx)
       IN  IF ~(incap <= 1)
           THEN Stop("panic") /\ UNCHANGED drv
           ELSE IF ~TPSV_dim_check(np, n)
           THEN Stop("IncompatibleDimensions") /\ UNCHANGED drv
           ELSE IF ~HasCharCode(obj.uplo, obj.trans)
           THEN (\E o \in CharCodeOutcomes : Stop(o)) /\ UNCHANGED drv
           ELSE IF ~(tn.ok /\ tincx.ok)
           THEN Stop("IntegerOverflow") /\ UNCHANGED drv
           ELSE /\ drv' = [op |-> "tpsv", uplo |-> obj.uplo, trans |-> obj.trans,
                           n |-> tn.val, incx |-> tincx.val]
                /\ pc' = "run_blas"
                /\ UNCHANGED result

(* -------------------------- TPSV_Driver::run_blas ---------------------- *)
TPSV_run_blas ==
    /\ pc = "run_blas"
    /\ drv.op = "tpsv"
    /\ UNCHANGED <<in, elected, cls, obj, drv, out, outPre, cmem, result,
                   assigns, lastRead, lastOp>>
    /\ pc' = "ret"
    /\ IF drv.n = 0
       THEN UNCHANGED <<native, xmem>>
       ELSE /\ native' = Append(native, [drv EXCEPT !.op = "tpsv_call"] @@ [x |-> xmem])
            /\ xmem' = tpsv_kernel(xmem)

\* the tail of run: the ConjTrans branch of the row-major path conjugates the
\* solution
TPSV_finish ==
    /\ pc = "ret"
    /\ drv.op = "tpsv"
    /\ UNCHANGED <<in, elected, cls, obj, drv, out, outPre, cmem, native,
                   assigns, lastRead, lastOp>>
    /\ xmem' = IF elected # "ColMajor" /\ in.trans = "ConjTrans"
               THEN mapv_inplace_conj(xmem, in.complex)
               ELSE xmem
    /\ Stop("ok")

(* ------------------- the container used on its own --------------------- *)
\* shapes of the containers operated on directly
OutDims == (1 .. MaxDim) \X {1, 2}
\* values written through view_mut
WriteVals == {7}
ShadowInit(dim) == [p \in Idx(dim) |-> 50 + p[1] * dim[2] + p[2]]
OutInits(d) ==
    LET v == [dim |-> d, strides |-> DefaultStrides(d), rev |-> FALSE]
        a == [dim |-> d, strides |-> FortranStrides(d), el |-> ShadowInit(d)]
    IN  {OutViewMut(v), OutOwned(a), OutToBeCloned(v, a)}

\* a container in any of its three states, over a caller view of shape d
InitOut ==
    /\ \E d \in OutDims :
         /\ out \in OutInits(d)
         /\ cmem = IF out.tag = "Owned" THEN <<>> ELSE CInit(d)
    /\ in = [op |-> "out"]
    /\ pc = "out"
    /\ elected = None
    /\ cls = NoCls
    /\ obj = NoObj
    /\ drv = NoDrv
    /\ outPre = NoOut
    /\ xmem = <<>>
    /\ native = <<>>
    /\ result = "pending"
    /\ assigns = 0
    /\ lastRead = <<>>
    /\ lastOp = None

IsContainer(o) == o.tag \in {"ViewMut", "Owned", "ToBeCloned"}

\* apply a consuming operation of the container
OutApply(name, r) ==
    /\ out' = r.out
    /\ cmem' = r.mem
    /\ assigns' = assigns + r.assigned
    /\ outPre' = out
    /\ lastOp' = name
    /\ UNCHANGED <<pc, in, elected, cls, obj, drv, xmem, native, result>>

Out_view ==
    /\ pc = "out"
    /\ IsContainer(out)
    /\ lastRead' = view(out, cmem)
    /\ OutApply("view", OutRes(out, cmem, 0))

Out_view_mut ==
    /\ pc = "out"
    /\ IsContainer(out)
    /\ \E p \in DOMAIN view(out, cmem), v \in WriteVals :
         OutApply("view_mut",
                  view_mut_store(out, cmem, [view(out, cmem) EXCEPT ![p] = v]))
    /\ UNCHANGED lastRead

Out_into_owned ==
    /\ pc = "out"
    /\ IsContainer(out)
    /\ OutApply("into_owned", into_owned(out, cmem))
    /\ UNCHANGED lastRead

Out_clone_to_view_mut ==
    /\ pc = "out"
    /\ IsContainer(out)
    /\ OutApply("clone_to_view_mut", clone_to_view_mut(out, cmem))
    /\ UNCHANGED lastRead

Out_reversed_axes ==
    /\ pc = "out"
    /\ IsContainer(out)
    /\ OutApply("reversed_axes", reversed_axes(out, cmem))
    /\ UNCHANGED lastRead

(* ----------------------------- specification --------------------------- *)
Init == InitDispatch \/ InitOut

Next ==
    \/ SYRK_run
    \/ SYRK_driver
    \/ SYRK_run_blas
    \/ SYRK_finish
    \/ TPSV_run
    \/ TPSV_driver
    \/ TPSV_run_blas
    \/ TPSV_finish
    \/ Out_view
    \/ Out_view_mut
    \/ Out_into_owned
    \/ Out_clone_to_view_mut
    \/ Out_reversed_axes

Spec == Init /\ [][Next]_vars

(* ------------------------------- properties ---------------------------- *)
Errors == {"InvalidParameter", "InvalidDim", "IncompatibleDimensions",
           "IntegerOverflow"}
Opposite(uplo) == IF uplo = "Upper" THEN "Lower" ELSE "Upper"
Called == native # <<>>

\* C1: the operand run hands to driver is classified ColMajor or Sequential
\* and the layout passed is ColMajor (rank-k update); the packed operand
\* handed to driver has stride <= 1 (packed solve) -- so that the assertions
\* of driver never fail.
C1_DriverOperandColumnMajor ==
    pc = "driver" =>
        /\ obj.op = "syrk" =>
             /\ obj.layout = "ColMajor"
             /\ get_layout_array2(obj.a.dim, obj.a.strides) \in {"ColMajor", "Sequential"}
        /\ obj.op = "tpsv" => obj.ap.stride <= 1

\* C2 as stated: on the row-major path the kernel gets the opposite triangle
\* and the exchanged transpose selector, for the packed solve and for the
\* rank-k update alike; on the column-major path the packed solve passes
\* both selectors unchanged.
C2_Exchanged(trans, hermi) ==
    CASE trans = "NoTrans" -> IF hermi THEN "ConjTrans" ELSE "Trans"
      [] OTHER -> "NoTrans"
C2_PackedSolve ==
    (Called /\ in.op = "tpsv") =>
        IF elected = "ColMajor"
        THEN native[1].uplo = in.uplo /\ native[1].trans = in.trans
        ELSE /\ native[1].uplo = Opposite(in.uplo)
             /\ native[1].trans = C2_Exchanged(in.trans, FALSE)
             /\ in.trans = "ConjTrans" =>
                  /\ native[1].x = [i \in DOMAIN native[1].x |->
                                      Conj(XInit(in.x.len)[i], in.complex)]
                  /\ result = "ok" =>
                       xmem = [i \in DOMAIN xmem |->
                                 Conj(tpsv_kernel(native[1].x)[i], in.complex)]
C2_RankKTriangle ==
    (Called /\ in.op = "syrk" /\ elected = "RowMajor") =>
        native[1].uplo = Opposite(in.uplo)
C2_SelectorsExchangedOnRowMajor ==
    /\ C2_PackedSolve
    /\ C2_RankKTriangle
    /\ (Called /\ in.op = "syrk" /\ elected = "RowMajor") =>
          native[1].trans = C2_Exchanged(in.trans, in.hermi)

\* C2 amended: as above, except that the rank-k update exchanges the
\* transpose selector only when a is already row-major-preferred; for any
\* other a the flip rule has exchanged it once already and the kernel gets
\* the requested selector back (Trans for ConjTrans on a symmetric update).
C2_SelectorsOnRowMajor ==
    /\ C2_PackedSolve
    /\ C2_RankKTriangle
    /\ (Called /\ in.op = "syrk" /\ elected = "RowMajor") =>
          native[1].trans =
             IF cls.a \in {"RowMajor", "Sequential"}
             THEN C2_Exchanged(in.trans, in.hermi)
             ELSE IF in.trans = "ConjTrans" /\ ~in.hermi THEN "Trans"
             ELSE in.trans

\* a row-major packed solve with (upper, no-transpose) has called the kernel
\* with (lower, transpose)
C2_Witness ==
    /\ in.op = "tpsv" /\ elected = "RowMajor" /\ Called
    /\ in.uplo = "Upper" /\ in.trans = "NoTrans"
    /\ native[1].uplo = "Lower" /\ native[1].trans = "Trans"

\* C3: a rank-k dispatch returns InvalidParameter exactly when trans is
\* outside the allowed set of its kernel variant, and every native call
\* carries a selector of that set.
C3_Allowed(complex, hermi) ==
    IF ~complex THEN {"NoTrans", "Trans", "ConjTrans"}
    ELSE IF ~hermi THEN {"NoTrans", "Trans"}
    ELSE {"NoTrans", "ConjTrans"}
C3_TransAllowedSet ==
    in.op = "syrk" =>
        /\ pc = "done" =>
             (result = "InvalidParameter"
                <=> in.trans \notin C3_Allowed(in.complex, in.hermi))
        /\ in.trans \notin C3_Allowed(in.complex, in.hermi) => pc \in {"run", "done"}
        /\ \A i \in DOMAIN native :
             native[i].trans \in C3_Allowed(in.complex, in.hermi)

\* a Hermitian update asked for Trans has been rejected
C3_Witness ==
    /\ in.op = "syrk" /\ in.hermi /\ in.trans = "Trans"
    /\ pc = "done" /\ result = "InvalidParameter" /\ ~Called

\* C4: a dispatch that returns an error has made no native call, and the
\* integers of every native call are the operands' true dimensions and
\* strides, all within the native integer range.
C4_InRange(v) == v <= CIntMax /\ v >= -CIntMax - 1
C4_ErrorBeforeNativeCall ==
    /\ result \in Errors => ~Called
    /\ (Called /\ in.op = "syrk") =>
         LET call == native[1]
             n == IF obj.trans = "NoTrans" THEN obj.a.dim[1] ELSE obj.a.dim[2]
             k == IF obj.trans = "NoTrans" THEN obj.a.dim[2] ELSE obj.a.dim[1]
         IN  /\ call.n = n /\ call.k = k
             /\ call.lda = obj.a.strides[2]
             /\ call.ldc = IF outPre.tag = "ViewMut" THEN outPre.view.strides[2]
                           ELSE outPre.arr.strides[2]
             /\ \A v \in {call.n, call.k, call.lda, call.ldc} : C4_InRange(v)
    /\ (Called /\ in.op = "tpsv") =>
         LET call == native[1]
         IN  /\ call.n = in.x.len /\ call.incx = in.x.stride
             /\ C4_InRange(call.n) /\ C4_InRange(call.incx)

\* a rank-k dispatch has failed on an integer that does not fit c_int
C4_Witness ==
    /\ in.op = "syrk" /\ pc = "done" /\ result = "IntegerOverflow" /\ ~Called

\* C5: the shadow buffer is assigned into the caller's view at most once:
\* every assign-back starts in ToBeCloned and ends in a state without a
\* pending shadow, and view / view_mut leave the caller's view untouched
\* while the container is ToBeCloned.
C5_AssignStep ==
    assigns' > assigns =>
        /\ out.tag = "ToBeCloned"
        /\ out'.tag \in {"ViewMut", "Array"}
        /\ assigns' = assigns + 1
C5_ViewStep ==
    (out.tag = "ToBeCloned" /\ lastOp' \in {"view", "view_mut"}) =>
        /\ cmem' = cmem
        /\ out'.tag = "ToBeCloned"
        /\ out'.view = out.view
C5_AssignBackAtMostOnce ==
    /\ [](assigns <= 1)
    /\ [][C5_AssignStep /\ C5_ViewStep]_vars

\* a container finalised once and then turned into an owned array: one
\* assign-back in all
C5_Witness ==
    /\ pc = "out" /\ assigns = 1
    /\ lastOp = "into_owned" /\ outPre.tag = "ViewMut" /\ out.tag = "Array"

\* C6: clone_to_view_mut on ToBeCloned makes the caller's view equal, index
\* by index, to the shadow buffer as it was, and leaves ViewMut over that
\* view; on ViewMut and Owned it changes nothing.  After a successful rank-k
\* dispatch whose accumulator was served through a shadow buffer (the
\* accumulator handed to driver is not column-major-preferred) the caller's
\* accumulator holds what the kernel left in the shadow buffer.
C6_FinalizeStep ==
    lastOp' = "clone_to_view_mut" =>
        IF out.tag = "ToBeCloned"
        THEN /\ out'.tag = "ViewMut"
             /\ out'.view = out.view
             /\ \A p \in Idx(out.view.dim) :
                  ViewGet(out.view, cmem')[p] = out.arr.el[p]
        ELSE out' = out /\ cmem' = cmem
C6_Dispatch ==
    (in.op = "syrk" /\ in.c.some /\ pc \in {"ret", "done"} /\ result \in {"pending", "ok"}) =>
        /\ outPre.tag = "ToBeCloned"
             <=> get_layout_array2(obj.c.dim, obj.c.strides)
                   \notin {"ColMajor", "Sequential"}
        /\ outPre.tag = "ToBeCloned" =>
             /\ \A p \in Idx(outPre.view.dim) :
                  ViewGet(outPre.view, cmem)[p] = outPre.arr.el[p]
             /\ out.tag = "ViewMut"
C7_ZeroDim ==
    \/ in.op = "syrk" /\ (in.a.dim[1] = 0 \/ in.a.dim[2] = 0)
    \/ in.op = "tpsv" /\ in.x.len = 0
C7_OutputUnchanged ==
    /\ in.op = "tpsv" => xmem = XInit(in.x.len)
    /\ in.op = "syrk" =>
         /\ out.tag \in {"ViewMut", "Owned"}
         /\ in.c.some => (out.tag = "ViewMut" /\ cmem = CInit(in.c.dim))
         /\ ~in.c.some =>
              (out.tag = "Owned" /\ \A p \in DOMAIN out.arr.el : out.arr.el[p] = 0)
C7_ZeroDimensionNoOp ==
    (pc = "done" /\ C7_ZeroDim /\ result \notin Errors) =>
        /\ result = "ok"
        /\ ~Called
        /\ C7_OutputUnchanged

\* C8: an operand the classifier already places in the elected layout
\* reaches driver as a borrowed view, never as a fresh buffer.
C8_InTargetLayout ==
    \/ elected = "ColMajor" /\ cls.a \in {"ColMajor", "Sequential"}
    \/ elected = "RowMajor" /\ cls.a \in {"RowMajor", "Sequential"}
C8_ZeroCopyInTargetLayout ==
    (obj.op = "syrk" /\ C8_InTargetLayout) => ~obj.a.owned

\* C9 as stated: Sequential for a degenerate shape, RowMajor exactly when the
\* shape is not degenerate and the inner stride is 1, ColMajor exactly when
\* the outer stride is 1, NonContiguous otherwise.
C9_Degenerate(dim) == dim[1] = 0 \/ dim[2] = 0 \/ (dim[1] = 1 /\ dim[2] = 1)
C9_Classified == {v \in {[l |-> cls.a, dim |-> in.a.dim, strides |-> in.a.strides]} :
                     cls.a # None}
                 \cup {v \in {[l |-> cls.c, dim |-> in.c.dim, strides |-> in.c.strides]} :
                     cls.c # None}
C9_ColMajorIffOuterStrideOne ==
    in.op = "syrk" =>
        \A v \in C9_Classified :
            /\ v.l = "Sequential" <=> C9_Degenerate(v.dim)
            /\ v.l = "RowMajor" <=> (~C9_Degenerate(v.dim) /\ v.strides[2] = 1)
            /\ v.l = "ColMajor" <=> v.strides[1] = 1

\* C9 amended: ColMajor exactly when the shape is not degenerate, the inner
\* stride is not 1 and the outer stride is 1; NonContiguous exactly when the
\* shape is not degenerate and neither stride is 1.
C9_ClassifierRules ==
    in.op = "syrk" =>
        \A v \in C9_Classified :
            /\ v.l \in Layouts
            /\ v.l = "Sequential" <=> C9_Degenerate(v.dim)
            /\ v.l = "RowMajor" <=> (~C9_Degenerate(v.dim) /\ v.strides[2] = 1)
            /\ v.l = "ColMajor" <=>
                 (~C9_Degenerate(v.dim) /\ v.strides[2] # 1 /\ v.strides[1] = 1)
            /\ v.l = "NonContiguous" <=>
                 (~C9_Degenerate(v.dim) /\ v.strides[2] # 1 /\ v.strides[1] # 1)

\* a column of default strides: both strides are 1 and the rule for the
\* inner stride wins
C9_Witness ==
    /\ in.op = "syrk" /\ cls.a = "RowMajor"
    /\ in.a.dim = <<2, 1>> /\ in.a.strides = <<1, 1>>

\* C10: after a successful rank-k dispatch with a caller-supplied
\* accumulator, every element strictly in the triangle opposite to uplo
\* holds the value it had before the dispatch.
C10_StrictlyOpposite(uplo, p) == IF uplo = "Upper" THEN p[1] > p[2] ELSE p[1] < p[2]
C10_OppositeTriangleKept ==
    (in.op = "syrk" /\ in.c.some /\ pc = "done" /\ result = "ok") =>
        \A p \in DOMAIN cmem :
            C10_StrictlyOpposite(in.uplo, p) => cmem[p] = CInit(in.c.dim)[p]

\* the row-major path, served through a shadow buffer, has written the
\* requested triangle of a 2 x 2 accumulator
C10_Witness ==
    /\ in.op = "syrk" /\ in.c.some /\ pc = "done" /\ result = "ok"
    /\ elected = "RowMajor" /\ outPre.tag = "ToBeCloned" /\ Called
    /\ in.c.dim = <<2, 2>> /\ in.uplo = "Upper"
    /\ cmem[<<0, 1>>] # CInit(in.c.dim)[<<0, 1>>]
    /\ cmem[<<1, 0>>] = CInit(in.c.dim)[<<1, 0>>]

\* the case of C11: run has applied the flip rule of the elected layout to a
\* conjugate-transpose request whose operand a is not in that layout
C11_Case ==
    /\ in.op = "syrk" /\ in.trans = "ConjTrans" /\ elected # None
    /\ IF elected = "ColMajor" THEN ~is_fpref(cls.a) ELSE ~is_cpref(cls.a)

\* the request was turned into no-transpose of a conjugated copy: the struct
\* handed to driver holds a fresh array with F::conj applied; for a
\* column-major target it is the transposed operand with NoTrans, for a
\* row-major target run exchanges the NoTrans of the rule once more
C11_Converted ==
    /\ obj # NoObj
    /\ obj.a.conj /\ obj.a.owned
    /\ IF elected = "ColMajor"
       THEN obj.trans = "NoTrans" /\ obj.a.dim = Swap(in.a.dim)
       ELSE obj.trans = trans_flip("NoTrans", in.hermi) /\ obj.a.dim = in.a.dim

C11_Rejected == pc = "done" /\ result = "InvalidParameter" /\ native = <<>>

C12_ReturnedError == pc = "done" /\ result \in Errors
\* the vector x of the packed solve holds its values of before the dispatch
C12_XKept == in.op = "tpsv" => \A i \in DOMAIN xmem : xmem[i] = XInit(in.x.len)[i]
\* the caller-supplied accumulator c of the rank-k update holds its values
\* of before the dispatch
C12_CKept ==
    (in.op = "syrk" /\ in.c.some) =>
        \A p \in DOMAIN cmem : cmem[p] = CInit(in.c.dim)[p]

\* C12: whenever a dispatch of the packed solve or of the rank-k update
\* returns an error, every element of the caller-supplied output buffer (x,
\* c) holds the value it had before the dispatch, whatever the selectors
\* and the elected layout.
C12_OutputKeptOnError == C12_ReturnedError => (C12_XKept /\ C12_CKept)

\* the rank-k half of C12 on its own
C12_AccumulatorKeptOnError == C12_ReturnedError => C12_CKept

====
